---- MODULE Spec2Model ----
(***************************************************************************)
(* Focus Flow backend: the focus-session table and the handlers of         *)
(* backend/routers/sessions.py (start, end, list, stats, calendar link),   *)
(* and the reply parser of backend/routers/breakdown.py.                   *)
(*                                                                         *)
(* Timestamps are whole seconds since an epoch at 00:00:00 UTC.  A Python  *)
(* str that the code inspects character by character (task_title) is a     *)
(* sequence of one-character strings; opaque strings (user ids, error      *)
(* details) are TLA+ strings.  An Optional value is a sequence of length   *)
(* 0 (None) or 1.                                                          *)
(***************************************************************************)
EXTENDS Integers, Sequences, FiniteSets, TLC

VARIABLES
    store,   \* the focussession table: rows in insertion order
    resp,    \* the last HTTP response: operation, status, detail, storage statements run
    pend,    \* per worker thread: an end_session request between its SELECT and its COMMIT
    data,    \* breakdown: the value json.loads returned for the model reply
    steps    \* breakdown: the outcome of parse_steps_from_response on data

vars == <<store, resp, pend, data, steps>>

---------------------------------------------------------------------------
(* Bounds of the model *)

MaxSessions == 2
ClockStep == 90
MaxWorkers == 2
MaxSteps == 2

(* Program constants *)

SecondsPerMinute == 60
SecondsPerDay == 86400
DefaultBlockMinutes == 60
DefaultMinutes == 25

---------------------------------------------------------------------------
(* Values *)

None == <<>>
Some(x) == <<x>>

UserIds == {"alice", "bob"}

\* The X-User-Id header: absent, or present with a value (possibly empty).
Headers ==
    {[present |-> FALSE, value |-> ""]}
        \cup {[present |-> TRUE, value |-> v] : v \in {""} \cup UserIds}

\* Wall-clock readings of the lifecycle model; nothing orders two readings.
Clock == {0, ClockStep}

\* Wall-clock readings of the statistics model: two UTC days, durations
\* that are not whole minutes.
StatClock == {0, ClockStep, SecondsPerDay}

\* task_title inputs: empty and whitespace-only strings.
TitleInputs == {<<>>, <<" ">>, <<" ", " ">>}

\* Path parameter session_id; 0 is an id that uuid4 never produced.
SessionIds == 0..MaxSessions

\* Query parameter limit.
Limits == -1..(MaxSessions + 1)

Workers == 1..MaxWorkers

Focus == <<"F", "o", "c", "u", "s">>

Max(a, b) == IF a >= b THEN a ELSE b
Min(a, b) == IF a <= b THEN a ELSE b

---------------------------------------------------------------------------
(* Python helpers *)

RECURSIVE LStrip(_)
LStrip(s) == IF s # <<>> /\ Head(s) = " " THEN LStrip(Tail(s)) ELSE s

RECURSIVE RStrip(_)
RStrip(s) ==
    IF s # <<>> /\ s[Len(s)] = " " THEN RStrip(SubSeq(s, 1, Len(s) - 1)) ELSE s

\* str.strip()
Strip(s) == RStrip(LStrip(s))

\* seq[:limit]
SlicePrefix(seq, limit) ==
    IF limit >= 0
    THEN SubSeq(seq, 1, Min(limit, Len(seq)))
    ELSE SubSeq(seq, 1, Max(0, Len(seq) + limit))

\* datetime.date(): the UTC calendar day
Date(t) == t \div SecondsPerDay

\* Mutant of DurationMin: the floor without the clamp.
DurationMinUnclamped(started, ended) == (ended - started) \div SecondsPerMinute

\* int((ended_at - started_at).total_seconds() // 60), clamped at 0
DurationMin(started, ended) == Max(0, (ended - started) \div SecondsPerMinute)

---------------------------------------------------------------------------
(* Responses *)

HttpError(db, status, detail, dbops) ==
    [status |-> status, detail |-> detail, dbops |-> dbops, store |-> db, body |-> <<>>]

Ok(db, dbops, body) ==
    [status |-> 200, detail |-> "", dbops |-> dbops, store |-> db, body |-> body]

MissingDetail == "Missing X-User-Id header"
NotFoundDetail == "Session not found"
EndedDetail == "Session already ended"

\* Mutant of RequireUserId: only an absent header is refused.
RequireUserIdNoneOnly(h) == h.present

\* _require_user_id: TRUE when the header passes, FALSE when it raises 400
RequireUserId(h) == h.present /\ h.value # ""

\* Mutant of SelectOwned: the lookup is by id alone.
SelectById(db, sid, uid) == {i \in DOMAIN db : db[i].id = sid}

\* select(FocusSession).where(id == session_id, user_id == uid).one_or_none()
SelectOwned(db, sid, uid) ==
    {i \in DOMAIN db : db[i].id = sid /\ db[i].user_id = uid}

\* str(uuid.uuid4()): an id no stored row has
NewId(db) == Len(db) + 1

---------------------------------------------------------------------------
(* Handlers, as functions of the table and the request *)

StartSession(db, h, title, now) ==
    IF ~RequireUserId(h) THEN HttpError(db, 400, MissingDetail, 0)
    ELSE LET session == [id |-> NewId(db),
                         user_id |-> h.value,
                         task_title |-> IF Strip(title) = <<>> THEN Focus ELSE Strip(title),
                         started_at |-> now,
                         ended_at |-> None]
         IN Ok(Append(db, session), 2, <<session>>)

\* Mutant of EndLookup: the ended_at test is missing.
EndLookupNoEndedTest(db, h, sid) ==
    IF ~(h.present /\ h.value # "")
    THEN [status |-> 400, detail |-> "Missing X-User-Id header", dbops |-> 0, row |-> 0]
    ELSE LET found == {i \in DOMAIN db : db[i].id = sid /\ db[i].user_id = h.value} IN
         IF found = {} THEN [status |-> 404, detail |-> "Session not found", dbops |-> 1, row |-> 0]
         ELSE [status |-> 200, detail |-> "", dbops |-> 1, row |-> CHOOSE j \in found : TRUE]

\* end_session up to its commit: the identity check, the SELECT and the
\* ended_at test on the loaded object.  status 200 means all three passed
\* and row is the index of the loaded row.
EndLookup(db, h, sid) ==
    IF ~RequireUserId(h) THEN [status |-> 400, detail |-> MissingDetail, dbops |-> 0, row |-> 0]
    ELSE LET found == SelectOwned(db, sid, h.value) IN
         IF found = {} THEN [status |-> 404, detail |-> NotFoundDetail, dbops |-> 1, row |-> 0]
         ELSE LET i == CHOOSE j \in found : TRUE IN
              IF db[i].ended_at # None
              THEN [status |-> 400, detail |-> EndedDetail, dbops |-> 1, row |-> 0]
              ELSE [status |-> 200, detail |-> "", dbops |-> 1, row |-> i]

\* Mutant of EndWrite: the update stamps started_at too.
EndWriteRestamps(db, i, now) ==
    [db EXCEPT ![i].ended_at = <<now>>, ![i].started_at = now]

\* db.add; db.commit: UPDATE focussession SET ended_at = now WHERE id = ...
EndWrite(db, i, now) == [db EXCEPT ![i].ended_at = Some(now)]

EndSession(db, h, sid, now) ==
    LET c == EndLookup(db, h, sid) IN
    IF c.status # 200 THEN HttpError(db, c.status, c.detail, c.dbops)
    ELSE LET after == EndWrite(db, c.row, now)
         IN Ok(after, 3, <<after[c.row]>>)

\* The orders ORDER BY started_at DESC may return the user's rows in: rows
\* with equal started_at come in an order the statement does not fix.
Orderings(db, uid) ==
    LET mine == {i \in DOMAIN db : db[i].user_id = uid}
        n == Cardinality(mine)
    IN {q \in [1..n -> mine] :
            /\ \A a, b \in 1..n : a # b => q[a] # q[b]
            /\ \A a, b \in 1..n : a < b => db[q[a]].started_at >= db[q[b]].started_at}

\* The set of responses list_sessions may give.
ListSessions(db, h, limit) ==
    IF ~RequireUserId(h) THEN {HttpError(db, 400, MissingDetail, 0)}
    ELSE {Ok(db, 1, SlicePrefix([k \in DOMAIN q |-> db[q[k]]], limit)) :
            q \in Orderings(db, h.value)}

RECURSIVE StatsLoop(_, _, _, _)
StatsLoop(sessions, k, today, acc) ==
    IF k > Len(sessions) THEN acc
    ELSE LET s == sessions[k] IN
         IF s.ended_at = None THEN StatsLoop(sessions, k + 1, today, acc)
         ELSE LET duration_min == DurationMin(s.started_at, s.ended_at[1])
                  isToday == Date(s.started_at) = today
              IN StatsLoop(sessions, k + 1, today,
                    [acc EXCEPT
                        !.total_minutes = @ + duration_min,
                        !.today_sessions = IF isToday THEN @ + 1 ELSE @,
                        !.today_minutes = IF isToday THEN @ + duration_min ELSE @])

GetStats(db, h, now) ==
    IF ~RequireUserId(h) THEN HttpError(db, 400, MissingDetail, 0)
    ELSE LET sessions == SelectSeq(db, LAMBDA r : r.user_id = h.value)
             init == [total_sessions |-> Len(sessions), total_minutes |-> 0,
                      today_sessions |-> 0, today_minutes |-> 0]
         IN Ok(db, 1, <<StatsLoop(sessions, 1, Date(now), init)>>)

\* _to_google_calendar_format: strftime("%Y%m%dT%H%M%SZ"), as the fields it prints
ToGoogleCalendarFormat(t) ==
    [date |-> Date(t),
     hh |-> (t % SecondsPerDay) \div 3600,
     mm |-> (t % 3600) \div SecondsPerMinute,
     ss |-> t % SecondsPerMinute]

\* urllib.parse.quote on the characters a title holds here
RECURSIVE Quote(_)
Quote(s) ==
    IF s = <<>> THEN <<>>
    ELSE (IF Head(s) = " " THEN <<"%", "2", "0">> ELSE <<Head(s)>>) \o Quote(Tail(s))

GetCalendarLink(db, h, sid) ==
    IF ~RequireUserId(h) THEN HttpError(db, 400, MissingDetail, 0)
    ELSE LET found == SelectOwned(db, sid, h.value) IN
         IF found = {} THEN HttpError(db, 404, NotFoundDetail, 1)
         ELSE LET session == db[CHOOSE j \in found : TRUE]
                  start_dt == session.started_at
                  end_dt == IF session.ended_at # None THEN session.ended_at[1]
                            ELSE start_dt + DefaultBlockMinutes * SecondsPerMinute
                  title == Strip(IF session.task_title = <<>> THEN Focus
                                 ELSE session.task_title)
              IN Ok(db, 1, <<[action |-> "TEMPLATE",
                              text |-> Quote(title),
                              dates |-> <<ToGoogleCalendarFormat(start_dt),
                                          ToGoogleCalendarFormat(end_dt)>>,
                              title |-> title]>>)

---------------------------------------------------------------------------
(* The lifecycle specification: every handler runs to completion *)

Reply(op, r) == [op |-> op, status |-> r.status, detail |-> r.detail, dbops |-> r.dbops]

NoReply == [op |-> "none", status |-> 0, detail |-> "", dbops |-> 0]

Idle == [pc |-> "idle", sid |-> 0, row |-> 0]

NoData == [kind |-> "null", items |-> <<>>]

NoSteps == [status |-> 0, detail |-> "", body |-> <<>>]

Init ==
    /\ store = <<>>
    /\ resp = NoReply
    /\ pend = [w \in Workers |-> Idle]
    /\ data = NoData
    /\ steps = NoSteps

Start(h, title, now) ==
    /\ Len(store) < MaxSessions \/ ~RequireUserId(h)
    /\ LET r == StartSession(store, h, title, now)
       IN store' = r.store /\ resp' = Reply("start", r)
    /\ UNCHANGED <<pend, data, steps>>

End(h, sid, now) ==
    /\ LET r == EndSession(store, h, sid, now)
       IN store' = r.store /\ resp' = Reply("end", r)
    /\ UNCHANGED <<pend, data, steps>>

List(h, limit) ==
    /\ \E r \in ListSessions(store, h, limit) :
            store' = r.store /\ resp' = Reply("list", r)
    /\ UNCHANGED <<pend, data, steps>>

Stats(h, now) ==
    /\ LET r == GetStats(store, h, now)
       IN store' = r.store /\ resp' = Reply("stats", r)
    /\ UNCHANGED <<pend, data, steps>>

Link(h, sid) ==
    /\ LET r == GetCalendarLink(store, h, sid)
       IN store' = r.store /\ resp' = Reply("link", r)
    /\ UNCHANGED <<pend, data, steps>>

Next ==
    \/ \E h \in Headers, title \in TitleInputs, now \in Clock : Start(h, title, now)
    \/ \E h \in Headers, sid \in SessionIds, now \in Clock : End(h, sid, now)
    \/ \E h \in Headers, limit \in Limits : List(h, limit)
    \/ \E h \in Headers, now \in Clock : Stats(h, now)
    \/ \E h \in Headers, sid \in SessionIds : Link(h, sid)

Spec == Init /\ [][Next]_vars

---------------------------------------------------------------------------
(* The statistics specification: get_stats applied to tables holding       *)
(* sessions started and ended on either of two UTC days                    *)

\* A row Start and End can have stored, with readings from StatClock.
StatRows(id) ==
    {[id |-> id, user_id |-> u, task_title |-> Focus, started_at |-> s, ended_at |-> e] :
        u \in UserIds, s \in StatClock, e \in {None} \cup {Some(t) : t \in StatClock}}

InitStats ==
    /\ \E n \in 0..MaxSessions :
            store \in {q \in [1..n -> UNION {StatRows(id) : id \in 1..n}] :
                            \A k \in 1..n : q[k].id = k}
    /\ resp = NoReply
    /\ pend = [w \in Workers |-> Idle]
    /\ data = NoData
    /\ steps = NoSteps

NextStats == \E h \in Headers, now \in StatClock : Stats(h, now)

SpecStats == InitStats /\ [][NextStats]_vars

---------------------------------------------------------------------------
(* The race specification: end_session runs in worker threads, each with   *)
(* its own database session, and another request may run between one       *)
(* request's SELECT and its COMMIT                                         *)

\* A worker runs end_session up to the commit.
EndSelect(w, h, sid) ==
    /\ pend[w].pc = "idle"
    /\ LET c == EndLookup(store, h, sid) IN
         IF c.status # 200
         THEN /\ resp' = Reply("end", HttpError(store, c.status, c.detail, c.dbops))
              /\ pend' = pend
         ELSE /\ pend' = [pend EXCEPT ![w] = [pc |-> "checked", sid |-> sid, row |-> c.row]]
              /\ resp' = resp
    /\ UNCHANGED <<store, data, steps>>

\* The worker stamps the object it loaded and commits.
EndCommit(w, now) ==
    /\ pend[w].pc = "checked"
    /\ store' = EndWrite(store, pend[w].row, now)
    /\ resp' = Reply("end", Ok(store', 3, <<store'[pend[w].row]>>))
    /\ pend' = [pend EXCEPT ![w] = Idle]
    /\ UNCHANGED <<data, steps>>

NextRace ==
    \/ \E h \in Headers, title \in TitleInputs, now \in Clock : Start(h, title, now)
    \/ \E w \in Workers, h \in Headers, sid \in SessionIds : EndSelect(w, h, sid)
    \/ \E w \in Workers, now \in Clock : EndCommit(w, now)

SpecRace == Init /\ [][NextRace]_vars

---------------------------------------------------------------------------
(* Breakdown: parse_steps_from_response from the value json.loads returns  *)

\* A decoded JSON value that is no array: its kind, and its text (string)
\* or its number (number; 1/0 for the bool true/false).  An object value
\* under a key is the empty object.
JStr(s) == [kind |-> "string", s |-> s, n |-> 0]
JNum(n) == [kind |-> "number", s |-> "", n |-> n]
JBool(b) == [kind |-> "bool", s |-> "", n |-> IF b THEN 1 ELSE 0]
JNull == [kind |-> "null", s |-> "", n |-> 0]
JEmptyObj == [kind |-> "object", s |-> "", n |-> 0]

\* Values the reply may hold under "title".
TitleValues == {JStr("Do X"), JStr(""), JNum(5), JNull, JBool(TRUE), JEmptyObj}

\* Values the reply may hold under "estimated_minutes".
MinuteValues == {JNum(20), JStr("20"), JStr("soon"), JNull}

\* An array element: a dict with the keys in `keys` (the value of an absent
\* key is unused), or a value that is no dict.
JDict(keys, t, m) == [kind |-> "object", keys |-> keys, title |-> t, estimated_minutes |-> m]
JNotDict == [kind |-> "number", keys |-> {}, title |-> JNull, estimated_minutes |-> JNull]

Elements ==
    {JDict({"title", "estimated_minutes"}, t, m) : t \in TitleValues, m \in MinuteValues}
        \cup {JDict({"title"}, t, JNull) : t \in TitleValues}
        \cup {JDict({"estimated_minutes"}, JNull, m) : m \in MinuteValues}
        \cup {JDict({}, JNull, JNull), JNotDict}

\* What json.loads returned: an array of elements, or a value that is no array.
JArr(q) == [kind |-> "array", items |-> q]

Replies ==
    {JArr(q) : q \in UNION {[1..n -> Elements] : n \in 0..MaxSteps}}
        \cup {[kind |-> "object", items |-> <<>>], [kind |-> "string", items |-> <<>>]}

\* dict.get(key, default)
Get(obj, key, default) == IF key \in obj.keys THEN obj[key] ELSE default

\* Mutant of PyStr: a value that is no string becomes the empty string.
PyStrOrEmpty(x) == IF x.kind = "string" THEN x.s ELSE ""

\* str(x) on a decoded JSON value
PyStr(x) ==
    CASE x.kind = "string" -> x.s
      [] x.kind = "number" -> ToString(x.n)
      [] x.kind = "bool" -> (IF x.n = 1 THEN "True" ELSE "False")
      [] x.kind = "null" -> "None"
      [] x.kind = "object" -> "{}"

\* The decimal numerals among the strings of the model.
DecimalStrings == {"20"}

\* int(x) on a decoded JSON value raises for None, a dict and a string
\* that is no decimal numeral
IntRaises(x) ==
    \/ x.kind \in {"null", "object"}
    \/ x.kind = "string" /\ x.s \notin DecimalStrings

\* int(x) where it does not raise
IntOf(x) ==
    CASE x.kind = "number" -> x.n
      [] x.kind = "bool" -> x.n
      [] x.kind = "string" -> 20

ParseError(detail) == [status |-> 502, detail |-> detail, body |-> <<>>]

ParseSteps(d) ==
    IF d.kind # "array" THEN ParseError("Expected a JSON array")
    ELSE IF \E k \in DOMAIN d.items : d.items[k].kind # "object"
         THEN ParseError("element conversion raised")
    ELSE IF \E k \in DOMAIN d.items :
                IntRaises(Get(d.items[k], "estimated_minutes", JNum(DefaultMinutes)))
         THEN ParseError("element conversion raised")
    ELSE [status |-> 200, detail |-> "",
          body |-> [k \in DOMAIN d.items |->
                      [title |-> PyStr(Get(d.items[k], "title", JStr(""))),
                       estimated_minutes |->
                          IntOf(Get(d.items[k], "estimated_minutes", JNum(DefaultMinutes)))]]]

InitBreakdown ==
    /\ store = <<>>
    /\ resp = NoReply
    /\ pend = [w \in Workers |-> Idle]
    /\ data \in Replies
    /\ steps = NoSteps

Breakdown ==
    /\ steps = NoSteps
    /\ steps' = ParseSteps(data)
    /\ UNCHANGED <<store, resp, pend, data>>

NextBreakdown == Breakdown

SpecBreakdown == InitBreakdown /\ [][NextBreakdown]_vars

---------------------------------------------------------------------------
(* Properties *)

Hdr(u) == [present |-> TRUE, value |-> u]

Active(r) == r.ended_at = None

\* C1: when End requests run one after another, the first End of an active
\* session by its owner succeeds and sets ended_at; every later End of that
\* session by the owner fails with 400 "Session already ended" and leaves
\* the table as it was.
C1_EndOnceThenInvalid ==
    /\ \A i \in DOMAIN store, now \in Clock, later \in Clock :
          LET h == Hdr(store[i].user_id)
              first == EndSession(store, h, store[i].id, now)
          IN IF Active(store[i])
             THEN /\ first.status = 200
                  /\ first.store[i].ended_at = Some(now)
                  /\ LET second == EndSession(first.store, h, store[i].id, later)
                     IN /\ second.status = 400
                        /\ second.detail = EndedDetail
                        /\ second.store = first.store
             ELSE /\ first.status = 400
                  /\ first.detail = EndedDetail
                  /\ first.store = store
    /\ resp.detail = EndedDetail =>
          /\ resp.op = "end" /\ resp.status = 400
          /\ \E i \in DOMAIN store : ~Active(store[i])

\* An End has failed as already ended.
C1_Witness ==
    /\ resp.op = "end" /\ resp.status = 400 /\ resp.detail = EndedDetail
    /\ \E i \in DOMAIN store : ~Active(store[i])

\* C2: in every execution, concurrent End requests included, a session's
\* ended_at, once it holds a value, is not modified or cleared by any step.
C2_EndedAtSetOnce ==
    [][\A i \in DOMAIN store :
            ~Active(store[i]) => store'[i].ended_at = store[i].ended_at]_vars

\* C3: End and Link by a user who does not own the session answer exactly
\* as for an id that does not exist (404) and change nothing; List and
\* Stats of that user answer as if the other users' sessions were not stored.
C3_CrossUserNotFound ==
    \A i \in DOMAIN store, b \in UserIds :
        b # store[i].user_id =>
            LET own == SelectSeq(store, LAMBDA r : r.user_id = b) IN
            /\ \A now \in Clock :
                  /\ EndSession(store, Hdr(b), store[i].id, now).status = 404
                  /\ EndSession(store, Hdr(b), store[i].id, now)
                        = EndSession(store, Hdr(b), 0, now)
                  /\ EndSession(store, Hdr(b), store[i].id, now).store = store
                  /\ GetStats(store, Hdr(b), now).body = GetStats(own, Hdr(b), now).body
                  /\ GetStats(store, Hdr(b), now).body[1].total_sessions = Len(own)
            /\ GetCalendarLink(store, Hdr(b), store[i].id).status = 404
            /\ GetCalendarLink(store, Hdr(b), store[i].id)
                  = GetCalendarLink(store, Hdr(b), 0)
            /\ \A limit \in Limits :
                  /\ {r.body : r \in ListSessions(store, Hdr(b), limit)}
                        = {r.body : r \in ListSessions(own, Hdr(b), limit)}
                  /\ \A r \in ListSessions(store, Hdr(b), limit) :
                        \A k \in DOMAIN r.body : r.body[k].user_id = b

\* An End was answered 404 while both users own a session, one still active.
C3_Witness ==
    /\ resp.op = "end" /\ resp.status = 404
    /\ \E i, j \in DOMAIN store :
          store[i].user_id = "alice" /\ store[j].user_id = "bob" /\ Active(store[i])

\* C4: with the user identifier absent or empty, each of the five handlers
\* fails with 400 "Missing X-User-Id header" before any storage statement
\* runs and leaves the table as it was, whatever its other arguments.
C4_MissingIdentityFirst ==
    /\ \A h \in Headers :
          (~h.present \/ h.value = "") =>
              /\ \A title \in TitleInputs, now \in Clock :
                    StartSession(store, h, title, now) = HttpError(store, 400, MissingDetail, 0)
              /\ \A sid \in SessionIds, now \in Clock :
                    EndSession(store, h, sid, now) = HttpError(store, 400, MissingDetail, 0)
              /\ \A limit \in Limits :
                    ListSessions(store, h, limit) = {HttpError(store, 400, MissingDetail, 0)}
              /\ \A now \in Clock :
                    GetStats(store, h, now) = HttpError(store, 400, MissingDetail, 0)
              /\ \A sid \in SessionIds :
                    GetCalendarLink(store, h, sid) = HttpError(store, 400, MissingDetail, 0)
    /\ \A i \in DOMAIN store : store[i].user_id \in UserIds
    /\ resp.detail = MissingDetail => resp.status = 400 /\ resp.dbops = 0

\* A request without identity was refused while an active session is stored.
C4_Witness ==
    /\ resp.detail = MissingDetail /\ resp.op = "end"
    /\ \E i \in DOMAIN store : Active(store[i])

\* C5: every stored session that has ended_at satisfies
\* started_at <= ended_at, the two being wall-clock readings that nothing
\* orders.
C5_StartNotAfterEnd ==
    \A i \in DOMAIN store :
        ~Active(store[i]) => store[i].started_at <= store[i].ended_at[1]

\* The whole minutes of a session that has ended, 0 when it ended before
\* it started.
WholeMinutes(r) ==
    LET d == r.ended_at[1] - r.started_at
    IN IF d < 0 THEN 0 ELSE d \div SecondsPerMinute

RECURSIVE SumWholeMinutes(_, _)
SumWholeMinutes(db, S) ==
    IF S = {} THEN 0
    ELSE LET i == CHOOSE j \in S : TRUE
         IN WholeMinutes(db[i]) + SumWholeMinutes(db, S \ {i})

\* C6: total_minutes is the sum, over the user's sessions that have
\* ended_at, of the whole minutes from started_at to ended_at, a session
\* that ended before it started counting 0; active sessions add nothing.
C6_TotalMinutes ==
    \A u \in UserIds, now \in StatClock :
        LET ended == {i \in DOMAIN store : store[i].user_id = u /\ ~Active(store[i])}
            total == GetStats(store, Hdr(u), now).body[1].total_minutes
        IN total = SumWholeMinutes(store, ended) /\ total >= 0

\* Stats has answered a user who has an active session and a session that
\* ended before it started.
C6_Witness ==
    /\ resp.op = "stats" /\ resp.status = 200
    /\ \E i, j \in DOMAIN store :
          /\ store[i].user_id = store[j].user_id
          /\ Active(store[i])
          /\ ~Active(store[j]) /\ store[j].ended_at[1] < store[j].started_at

\* C7: today_sessions counts all the user's sessions started on the current
\* UTC date, the active ones included.
C7_TodayCountsActive ==
    \A u \in UserIds, now \in Clock :
        GetStats(store, Hdr(u), now).body[1].today_sessions
            = Cardinality({i \in DOMAIN store :
                              store[i].user_id = u /\ Date(store[i].started_at) = Date(now)})

\* C8: List returns no row for every limit <= 0, exactly limit rows for
\* 0 < limit < n, and all n rows for limit >= n.
C8_ListPrefix ==
    \A u \in UserIds, limit \in Limits :
        LET n == Cardinality({i \in DOMAIN store : store[i].user_id = u}) IN
        \A r \in ListSessions(store, Hdr(u), limit) :
            Len(r.body) = IF limit <= 0 THEN 0 ELSE Min(limit, n)

\* C9 as stated: a step's title is the element's title when that is a
\* string, and the empty string when the key is missing or its value is
\* not a string.
C9_TitleOrEmpty ==
    steps.status = 200 =>
        \A k \in DOMAIN steps.body :
            steps.body[k].title =
                IF "title" \in data.items[k].keys /\ data.items[k].title.kind = "string"
                THEN data.items[k].title.s
                ELSE ""

\* C9 amended: whenever the parse succeeds there is one step per element;
\* its title is the element's title when that is a string, the empty string
\* when the key is missing, and otherwise Python's text of the value: the
\* numeral of a number, "None" for null, "True"/"False" for a boolean, "{}"
\* for an empty object.
C9_TitleStr ==
    steps.status = 200 =>
        /\ Len(steps.body) = Len(data.items)
        /\ \A k \in DOMAIN steps.body :
              LET e == data.items[k] IN
              steps.body[k].title =
                  IF "title" \notin e.keys THEN ""
                  ELSE CASE e.title.kind = "string" -> e.title.s
                         [] e.title.kind = "number" -> ToString(e.title.n)
                         [] e.title.kind = "null" -> "None"
                         [] e.title.kind = "bool" -> (IF e.title.n = 1 THEN "True" ELSE "False")
                         [] e.title.kind = "object" -> "{}"

\* A parse succeeded on a reply with a null title and an element without title.
C9_Witness ==
    /\ steps.status = 200
    /\ \E j, k \in DOMAIN data.items :
          /\ "title" \in data.items[j].keys /\ data.items[j].title.kind = "null"
          /\ steps.body[j].title = "None"
          /\ "title" \notin data.items[k].keys

\* C10: Start adds one row with ended_at absent and changes no stored row;
\* a successful End changes the ended_at of one row and nothing else; List,
\* Stats, Link and every failed call change nothing; no row is deleted and
\* no row's id, user_id, task_title or started_at changes.
C10_Frame ==
    [][/\ Len(store') >= Len(store)
       /\ \A i \in DOMAIN store :
             /\ store'[i].id = store[i].id
             /\ store'[i].user_id = store[i].user_id
             /\ store'[i].task_title = store[i].task_title
             /\ store'[i].started_at = store[i].started_at
       /\ (resp'.op = "start" /\ resp'.status = 200) =>
             /\ Len(store') = Len(store) + 1
             /\ SubSeq(store', 1, Len(store)) = store
             /\ Active(store'[Len(store')])
       /\ (resp'.op = "end" /\ resp'.status = 200) =>
             /\ Len(store') = Len(store)
             /\ \E i \in DOMAIN store :
                   /\ Active(store[i]) /\ ~Active(store'[i])
                   /\ \A j \in DOMAIN store : j # i => store'[j] = store[j]
       /\ (resp'.op \in {"list", "stats", "link"} \/ resp'.status # 200) =>
             store' = store]_vars

\* An End has succeeded while another session is stored.
C10_Witness ==
    /\ resp.op = "end" /\ resp.status = 200
    /\ Len(store) = MaxSessions
    /\ \E i \in DOMAIN store : ~Active(store[i])

====
